---- MODULE Spec2Model ----
(***************************************************************************)
(* EDI837Builder (src/EDIService.py): the claim record store, the provider *)
(* registry and the segment assembly of build().                          *)
(*                                                                         *)
(* A Python dict, and the builder object itself (a dict of attributes), is *)
(* a function from keys to values: "k in d" is k \in DOMAIN d, hasattr is  *)
(* membership of the attribute name in DOMAIN self.  A list is a sequence; *)
(* the code's 0-based indices are kept and read through At.  A segment    *)
(* "A*B*C~" is the tuple <<"A","B","C">> of its elements: the element      *)
(* separator and the segment terminator are the tuple structure, and the   *)
(* text build() returns, the segments joined by newlines, is the sequence  *)
(* of segments.  None is the empty tuple; an Optional[str] argument, which *)
(* the code tests by truth value only, is drawn from the strings.  A float *)
(* amount is held in hundredths and rendered by FloatStr.                  *)
(***************************************************************************)
EXTENDS Integers, Sequences, FiniteSets, TLC

VARIABLES builder, heap, builds, files

vars == <<builder, heap, builds, files>>

----------------------------------------------------------------------------
(* Python values *)

None == <<>>

Some(i) == <<i>>

DictSet(d, k, v) == [a \in DOMAIN d \cup {k} |-> IF a = k THEN v ELSE d[a]]

DictGet(d, k, default) == IF k \in DOMAIN d THEN d[k] ELSE default

At(list, i) == list[i + 1]

hasattr(self, name) == name \in DOMAIN self

(* str(float) of an amount given in hundredths: 15000 is 150.0 *)
FloatStr(cents) ==
    LET whole == cents \div 100
        frac  == cents % 100
    IN  IF frac % 10 = 0
        THEN ToString(whole) \o "." \o ToString(frac \div 10)
        ELSE IF frac < 10
             THEN ToString(whole) \o ".0" \o ToString(frac)
             ELSE ToString(whole) \o "." \o ToString(frac)

----------------------------------------------------------------------------
(* Enumerations: a member is its name, Value gives its code *)

PaymentResponsibilityLevelCode == {"Primary", "Secondary", "Tertiary"}

PaymentResponsibilityLevelCodeValue(m) ==
    CASE m = "Primary"   -> "P"
      [] m = "Secondary" -> "S"
      [] m = "Tertiary"  -> "T"

PaymentResponsibilityLevelCodeOf(v) ==
    CHOOSE m \in PaymentResponsibilityLevelCode :
        PaymentResponsibilityLevelCodeValue(m) = v

ClaimFilingIndicatorCode ==
    {"BlueCrossBlueShield", "Medicaid", "Medicare", "Commercial", "Unknown"}

ClaimFilingIndicatorCodeValue(m) ==
    CASE m = "BlueCrossBlueShield" -> "BL"
      [] m = "Medicaid"            -> "MC"
      [] m = "Medicare"            -> "MB"
      [] m = "Commercial"          -> "CI"
      [] m = "Unknown"             -> "ZZ"

RelationshipToSubscriberSelf == "18"

----------------------------------------------------------------------------
(* Builders and the objects they refer to.  provider_map holds a reference *)
(* into heap, the dict objects allocated by the constructor: one per       *)
(* builder.                                                                *)

BuilderIds == {1, 2}

(* a dict object made once for the class, not per instance *)
ClassProviderMap(id) == 0

(* a constructor that hands every builder the same dict object *)
SharedProviderMap(id) == 1

NewProviderMap(id) == id

EDI837Builder(id) ==
    [ version               |-> "005010X222A1",
      segment_terminator    |-> "~",
      element_separator     |-> "*",
      sub_element_separator |-> ">",
      submitter             |-> <<>>,
      billing_providers     |-> <<>>,
      subscribers           |-> <<>>,
      patients              |-> <<>>,
      service_lines         |-> <<>>,
      rendering_providers   |-> <<>>,
      hl_count              |-> 0,
      contact_info_map      |-> <<>>,
      segment_count         |-> 1,
      provider_map          |-> NewProviderMap(id),
      has_dependents        |-> FALSE ]

----------------------------------------------------------------------------
(* The add operations: each returns the builder after the call *)

ContactKey(contactInfo) ==
    DictGet(contactInfo, "name", "") \o "_"
        \o DictGet(contactInfo, "phoneNumber", "") \o ")"

(* an add_billing_provider that keeps whatever contact it is handed *)
add_billing_provider_any_contact(self, npi, taxonomy_code, employer_id, address, organization_name, last_name, first_name, contactInfo) ==
    LET base == [ npi |-> npi, taxonomyCode |-> taxonomy_code,
                  employerId |-> employer_id, address |-> address ]
        named == IF organization_name /= ""
                 THEN DictSet(base, "organizationName", organization_name)
                 ELSE DictSet(DictSet(base, "lastName", last_name),
                              "firstName", first_name)
        provider == IF contactInfo /= None
                    THEN DictSet(named, "contactInfo", contactInfo)
                    ELSE named
    IN  [ self EXCEPT
            !.contact_info_map =
                IF contactInfo /= None
                THEN DictSet(@, ContactKey(contactInfo), "billing")
                ELSE @,
            !.billing_providers = Append(@, provider) ]

add_billing_provider(self, npi, taxonomy_code, employer_id, address, organization_name, last_name, first_name, contactInfo) ==
    LET base == [ npi |-> npi, taxonomyCode |-> taxonomy_code,
                  employerId |-> employer_id, address |-> address ]
        named == IF organization_name /= ""
                 THEN DictSet(base, "organizationName", organization_name)
                 ELSE DictSet(DictSet(base, "lastName", last_name),
                              "firstName", first_name)
        fresh == /\ contactInfo /= None
                 /\ ContactKey(contactInfo) \notin DOMAIN self.contact_info_map
        provider == IF fresh THEN DictSet(named, "contactInfo", contactInfo)
                    ELSE named
    IN  [ self EXCEPT
            !.contact_info_map =
                IF fresh THEN DictSet(@, ContactKey(contactInfo), "billing")
                ELSE @,
            !.billing_providers = Append(@, provider) ]

add_subscriber(self, member_id, last_name, first_name, address, birth_date, gender, billing_provider_index, payment_responsibility_code, claim_filing_code, is_dependent, relationship_to_subscriber) ==
    LET subscriber ==
            [ memberId |-> member_id,
              lastName |-> last_name,
              firstName |-> first_name,
              address |-> address,
              birthDate |-> birth_date,
              gender |-> gender,
              billingProviderIndex |-> billing_provider_index,
              paymentResponsibilityLevelCode |->
                  PaymentResponsibilityLevelCodeValue(payment_responsibility_code),
              claimFilingCode |-> ClaimFilingIndicatorCodeValue(claim_filing_code),
              is_dependent |-> is_dependent,
              relationship_to_subscriber |-> relationship_to_subscriber ]
    IN  [ self EXCEPT
            !.has_dependents = IF is_dependent THEN TRUE ELSE @,
            !.subscribers = Append(@, subscriber) ]

add_submitter(self, contactInfo) ==
    LET fresh == /\ contactInfo /= None
                 /\ ContactKey(contactInfo) \notin DOMAIN self.contact_info_map
    IN  [ self EXCEPT
            !.submitter = contactInfo,
            !.contact_info_map =
                IF fresh THEN DictSet(@, ContactKey(contactInfo), "submitter")
                ELSE @ ]

add_payer(self, subscriber_index, payer_name, payer_id) ==
    DictSet(self, "payer_info",
            [ organizationName |-> payer_name, payerId |-> payer_id ])

add_service_facility_location(self, npi, organization_name, address) ==
    DictSet(self, "service_facility",
            [ npi |-> npi, organizationName |-> organization_name,
              address |-> address ])

add_prior_authorization(self, prior_auth_number) ==
    DictSet(self, "prior_authorization", prior_auth_number)

add_claim_information(self, subscriber_index, patient_control_number, claim_charge_amount, place_of_service_code, claim_frequency_code, signature_indicator, plan_participation_code, release_info_code, benefits_assignment, diagnosis_codes) ==
    DictSet(self, "claim_information",
            [ subscriberIndex |-> subscriber_index,
              patientControlNumber |-> patient_control_number,
              claimChargeAmount |-> claim_charge_amount,
              placeOfServiceCode |-> place_of_service_code,
              claimFrequencyCode |-> claim_frequency_code,
              signatureIndicator |-> signature_indicator,
              planParticipationCode |-> plan_participation_code,
              releaseInfoCode |-> release_info_code,
              benefitsAssignment |-> benefits_assignment,
              diagnosisCodes |-> IF diagnosis_codes = None THEN <<>>
                                 ELSE diagnosis_codes ])

add_service_line(self, subscriber_index, patient_index, procedure_code, modifier_codes, charge_amount, units, service_date, rendering_provider_index) ==
    LET service_line ==
            [ subscriberIndex |-> subscriber_index,
              patientIndex |-> patient_index,
              procedureCode |-> procedure_code,
              modifierCodes |-> modifier_codes,
              chargeAmount |-> charge_amount,
              units |-> units,
              serviceDate |-> service_date,
              renderingProviderIndex |-> rendering_provider_index ]
    IN  [ self EXCEPT !.service_lines = Append(@, service_line) ]

add_rendering_provider(self, npi, taxonomy_code, last_name, first_name, employer_id) ==
    LET provider == [ npi |-> npi, lastName |-> last_name,
                      firstName |-> first_name, taxonomyCode |-> taxonomy_code,
                      employerId |-> employer_id ]
    IN  [ self EXCEPT !.rendering_providers = Append(@, provider) ]

----------------------------------------------------------------------------
(* Identification resolver *)

_get_entity_identifier_code(context) ==
    CASE context = "billing_provider"   -> "85"
      [] context = "subscriber"         -> "IL"
      [] context = "patient"            -> "QC"
      [] context = "submitter"          -> "41"
      [] context = "receiver"           -> "40"
      [] context = "rendering_provider" -> "82"
      [] context = "payer"              -> "PR"
      [] context = "service_facility"   -> "77"
      [] OTHER                          -> "85"

_determine_entity_type(entity_data, context) ==
    IF context \in {"submitter", "receiver", "payer", "service_facility"}
    THEN "2"
    ELSE IF context \in {"patient"}
         THEN "1"
         ELSE IF "organizationName" \in DOMAIN entity_data THEN "2" ELSE "1"

(* <<code, qualifier>>; a qualifier of None is given as the f-string prints it *)
_get_identification_details(entity_data, context) ==
    CASE context \in {"billing_provider", "rendering_provider", "service_facility"}
            -> <<DictGet(entity_data, "npi", ""), "XX">>
      [] context = "subscriber" -> <<DictGet(entity_data, "memberId", ""), "MI">>
      [] context = "payer"      -> <<DictGet(entity_data, "payerId", ""), "PI">>
      [] context \in {"submitter", "receiver"}
            -> <<DictGet(entity_data, "id", ""), "46">>
      [] OTHER -> <<"", "None">>

----------------------------------------------------------------------------
(* Provider registry.  pm is the dict self.provider_map refers to; every   *)
(* operator that may register a provider returns the dict after the call   *)
(* with its return value.                                                  *)

ProviderContexts == {"billing_provider", "rendering_provider", "service_facility"}

(* a registry consulted for every context *)
_can_create_provider_any_context(pm, entity_data, context) ==
    IF DictGet(entity_data, "npi", "") = ""
       \/ DictGet(entity_data, "npi", "") \in DOMAIN pm
    THEN [pm |-> pm, ret |-> FALSE]
    ELSE [pm |-> DictSet(pm, DictGet(entity_data, "npi", ""), entity_data),
          ret |-> TRUE]

(* a registry that records the NPI without looking it up first *)
_can_create_provider_unchecked(pm, entity_data, context) ==
    IF context \notin ProviderContexts
    THEN [pm |-> pm, ret |-> TRUE]
    ELSE IF DictGet(entity_data, "npi", "") = ""
         THEN [pm |-> pm, ret |-> FALSE]
         ELSE [pm |-> DictSet(pm, DictGet(entity_data, "npi", ""), entity_data),
               ret |-> TRUE]

_can_create_provider(pm, entity_data, context) ==
    IF context \notin ProviderContexts
    THEN [pm |-> pm, ret |-> TRUE]
    ELSE LET npi == DictGet(entity_data, "npi", "")
         IN  IF npi = ""
             THEN [pm |-> pm, ret |-> FALSE]
             ELSE IF npi \in DOMAIN pm
                  THEN [pm |-> pm, ret |-> FALSE]
                  ELSE [pm |-> DictSet(pm, npi, entity_data), ret |-> TRUE]

----------------------------------------------------------------------------
(* Segment formatter.  An operator that may register a provider returns    *)
(* [pm, ret]: the registry after the call and the segments produced.       *)

(* the name segment, given what _can_create_provider answered *)
NameSegment(proceed, entity_data, context) ==
    LET entity_identifier_code == _get_entity_identifier_code(context)
        entity_type_qualifier  == _determine_entity_type(entity_data, context)
        id == _get_identification_details(entity_data, context)
    IN  IF proceed.ret
        THEN [ pm |-> proceed.pm,
               ret |-> <<"NM1", entity_identifier_code, entity_type_qualifier>>
                       \o (IF entity_type_qualifier = "1"
                           THEN << DictGet(entity_data, "lastName", ""),
                                   DictGet(entity_data, "firstName", ""),
                                   DictGet(entity_data, "middleName", ""),
                                   DictGet(entity_data, "namePrefix", ""),
                                   DictGet(entity_data, "nameSuffix", "") >>
                           ELSE << DictGet(entity_data, "organizationName", ""),
                                   "", "", "", "" >>)
                       \o <<id[2], id[1]>> ]
        ELSE [ pm |-> proceed.pm, ret |-> None ]

_create_name_segment(pm, entity_data, context) ==
    NameSegment(_can_create_provider(pm, entity_data, context),
                entity_data, context)

N4Segment(address) ==
    <<"N4", address.city, address.state, address.postalCode>>

DMGSegment(entity) == <<"DMG", "D8", entity.birthDate, entity.gender>>

_create_header ==
    << <<"ISA", "00", "          ", "00", "          ", "ZZ", "AV09311993     ",
         "01", "030240928      ", "240702", "1531", "^", "00501", "415133923",
         "0", "P", ">">>,
       <<"GS", "HC", "1923294", "030240928", "20240702", "1533", "415133923",
         "X", "005010X222A1">>,
       <<"ST", "837", "415133923", "005010X222A1">>,
       <<"BHT", "0019", "00", "1", "20240702", "1531", "CH">>,
       <<"NM1", "41", "2", "Mattel Industries", "", "", "", "", "46",
         "1234567890">>,
       <<"PER", "IC", "Ruth Handler", "TE", "8458130000">>,
       <<"NM1", "40", "2", "AVAILITY 5010", "", "", "", "", "46", "030240928">> >>

(* a billing provider loop that stops after PRV when the name is *)
(* suppressed                                                    *)
BillingProviderSegmentsNamedOnly(provider, name_segment) ==
    [ pm |-> name_segment.pm,
      ret |->
        << <<"HL", "1", "", "20", "1">>,
           <<"PRV", "BI", "PXC", provider.taxonomyCode>> >>
        \o (IF name_segment.ret /= None
            THEN << name_segment.ret,
                    <<"N3", provider.address.address1,
                      DictGet(provider.address, "address2", "")>>,
                    N4Segment(provider.address),
                    <<"REF", "EI", provider.employerId>> >>
                 \o (IF "contactInfo" \in DOMAIN provider
                     THEN << <<"PER", "IC",
                               DictGet(provider.contactInfo, "name", ""), "TE",
                               DictGet(provider.contactInfo, "phoneNumber", "")>> >>
                     ELSE <<>>)
            ELSE <<>>) ]

(* the billing provider loop, given the name segment of the provider *)
BillingProviderSegments(provider, name_segment) ==
    [ pm |-> name_segment.pm,
      ret |->
        << <<"HL", "1", "", "20", "1">>,
           <<"PRV", "BI", "PXC", provider.taxonomyCode>> >>
        \o (IF name_segment.ret /= None
            THEN << name_segment.ret,
                    <<"N3", provider.address.address1,
                      DictGet(provider.address, "address2", "")>>,
                    N4Segment(provider.address) >>
            ELSE <<>>)
        \o << <<"REF", "EI", provider.employerId>> >>
        \o (IF "contactInfo" \in DOMAIN provider
            THEN << <<"PER", "IC",
                      DictGet(provider.contactInfo, "name", ""), "TE",
                      DictGet(provider.contactInfo, "phoneNumber", "")>> >>
            ELSE <<>>) ]

_create_billing_provider_loop(self, pm, provider_index) ==
    BillingProviderSegments(
        At(self.billing_providers, provider_index),
        _create_name_segment(pm, At(self.billing_providers, provider_index),
                             "billing_provider"))

(* a dependent branch that writes PAT and NM1*QC whatever the payment     *)
(* responsibility                                                          *)
DependentSegmentsAlwaysPatient(subscriber) ==
    << <<"HL", "3", "2", "23", "0">>,
       <<"PAT", "01">>,
       <<"NM1", "QC", "1", subscriber.lastName, subscriber.firstName>>,
       <<"N3", subscriber.address.address1>>,
       N4Segment(subscriber.address),
       DMGSegment(subscriber) >>

(* the dependent branch of _create_subscriber_loop *)
DependentSegments(subscriber) ==
    LET responsibility_code ==
            PaymentResponsibilityLevelCodeOf(subscriber.paymentResponsibilityLevelCode)
    IN  << <<"HL", "3", "2", "23", "0">> >>
        \o (IF responsibility_code = "Primary"
            THEN << <<"PAT", "01">>,
                    <<"NM1", "QC", "1", subscriber.lastName,
                      subscriber.firstName>> >>
            ELSE <<>>)
        \o << <<"N3", subscriber.address.address1>>,
              N4Segment(subscriber.address),
              DMGSegment(subscriber) >>

(* a subscriber branch that numbers its HL by the subscriber count *)
SubscriberSegmentsCountedHL(subscriber, subscriber_count, name_segment) ==
    << <<"HL", ToString(subscriber_count + 2), "1", "22",
         ToString(subscriber_count)>>,
       <<"SBR", subscriber.paymentResponsibilityLevelCode,
         IF subscriber_count > 0 THEN "" ELSE RelationshipToSubscriberSelf,
         "", "", "", "", "", "", subscriber.claimFilingCode>>,
       name_segment >>
    \o (IF subscriber_count = 0
        THEN << <<"N3", subscriber.address.address1>>,
                N4Segment(subscriber.address),
                DMGSegment(subscriber) >>
        ELSE <<>>)

(* a subscriber branch that always names the subscriber as self *)
SubscriberSegmentsAlwaysSelf(subscriber, subscriber_count, name_segment) ==
    << <<"HL", "2", "1", "22", ToString(subscriber_count)>>,
       <<"SBR", subscriber.paymentResponsibilityLevelCode,
         RelationshipToSubscriberSelf,
         "", "", "", "", "", "", subscriber.claimFilingCode>>,
       name_segment >>
    \o (IF subscriber_count = 0
        THEN << <<"N3", subscriber.address.address1>>,
                N4Segment(subscriber.address),
                DMGSegment(subscriber) >>
        ELSE <<>>)

(* a subscriber branch that writes the address and demographics always *)
SubscriberSegmentsAlwaysAddress(subscriber, subscriber_count, name_segment) ==
    << <<"HL", "2", "1", "22", ToString(subscriber_count)>>,
       <<"SBR", subscriber.paymentResponsibilityLevelCode,
         IF subscriber_count > 0 THEN "" ELSE RelationshipToSubscriberSelf,
         "", "", "", "", "", "", subscriber.claimFilingCode>>,
       name_segment,
       <<"N3", subscriber.address.address1>>,
       N4Segment(subscriber.address),
       DMGSegment(subscriber) >>

(* the subscriber branch of _create_subscriber_loop *)
SubscriberSegments(subscriber, subscriber_count, name_segment) ==
    LET relationship == IF subscriber_count > 0 THEN ""
                        ELSE RelationshipToSubscriberSelf
    IN  << <<"HL", "2", "1", "22", ToString(subscriber_count)>>,
           <<"SBR", subscriber.paymentResponsibilityLevelCode, relationship,
             "", "", "", "", "", "", subscriber.claimFilingCode>>,
           name_segment >>
        \o (IF subscriber_count = 0
            THEN << <<"N3", subscriber.address.address1>>,
                    N4Segment(subscriber.address),
                    DMGSegment(subscriber) >>
            ELSE <<>>)

(* the subscriber loop, given the name segment made before the branch *)
SubscriberLoop(subscriber, subscriber_count, name_segment) ==
    [ pm |-> name_segment.pm,
      ret |-> IF subscriber.is_dependent
              THEN DependentSegments(subscriber)
              ELSE SubscriberSegments(subscriber, subscriber_count,
                                      name_segment.ret) ]

(* a subscriber loop that counts every entry of the store, itself too *)
_create_subscriber_loop_total(self, pm, subscriber_index) ==
    SubscriberLoop(
        At(self.subscribers, subscriber_index),
        Len(self.subscribers),
        _create_name_segment(pm, At(self.subscribers, subscriber_index),
                             "subscriber"))

_create_subscriber_loop(self, pm, subscriber_index) ==
    SubscriberLoop(
        At(self.subscribers, subscriber_index),
        Len(self.subscribers) - 1,
        _create_name_segment(pm, At(self.subscribers, subscriber_index),
                             "subscriber"))

(* the service facility block, given the name segment of the facility *)
ServiceFacilitySegments(facility, name_segment) ==
    [ pm |-> name_segment.pm,
      ret |->
        IF name_segment.ret /= None
        THEN <<name_segment.ret>>
             \o (IF "address1" \in DOMAIN facility.address
                 THEN << <<"N3", facility.address.address1>>
                         \o (IF DictGet(facility.address, "address2", "") /= ""
                             THEN <<facility.address.address2>> ELSE <<>>) >>
                 ELSE <<>>)
             \o (IF {"city", "state", "postalCode"} \subseteq DOMAIN facility.address
                 THEN <<N4Segment(facility.address)>>
                 ELSE <<>>)
        ELSE <<>> ]

_create_service_facility_segments(self, pm) ==
    IF ~hasattr(self, "service_facility")
    THEN [pm |-> pm, ret |-> <<>>]
    ELSE ServiceFacilitySegments(
             self.service_facility,
             _create_name_segment(pm, self.service_facility, "service_facility"))

RECURSIVE Join(_, _)
Join(sep, strs) ==
    IF Len(strs) = 0 THEN ""
    ELSE IF Len(strs) = 1 THEN strs[1]
         ELSE strs[1] \o sep \o Join(sep, Tail(strs))

(* segments, then the segments of r, with the registry r leaves *)
Prepend(segments, r) == [pm |-> r.pm, ret |-> segments \o r.ret]

(* CLM, and the REF and HI segments that follow it *)
ClaimSegments(self) ==
    LET claim == self.claim_information
    IN  << <<"CLM", claim.patientControlNumber,
             FloatStr(claim.claimChargeAmount), "", "",
             claim.placeOfServiceCode \o ">" \o "B" \o ">"
                 \o claim.claimFrequencyCode,
             claim.signatureIndicator, claim.planParticipationCode,
             claim.releaseInfoCode, claim.benefitsAssignment>> >>
        \o (IF hasattr(self, "prior_authorization")
            THEN << <<"REF", "G1", self.prior_authorization>> >>
            ELSE <<>>)
        \o (IF Len(claim.diagnosisCodes) > 0
            THEN << <<"HI",
                      Join(">", [ i \in 1..Len(claim.diagnosisCodes) |->
                                    claim.diagnosisCodes[i].diagnosisTypeCode
                                    \o ">"
                                    \o claim.diagnosisCodes[i].diagnosisCode ])>> >>
            ELSE <<>>)

_create_claim_information_loop(self, pm) ==
    IF ~hasattr(self, "claim_information")
    THEN [pm |-> pm, ret |-> <<>>]
    ELSE Prepend(ClaimSegments(self),
                 IF hasattr(self, "service_facility")
                 THEN _create_service_facility_segments(self, pm)
                 ELSE [pm |-> pm, ret |-> <<>>])

(* a composite that puts each modifier in front of those before it *)
RECURSIVE ModifiersReversed(_)
ModifiersReversed(modifier_codes) ==
    IF Len(modifier_codes) = 0 THEN ""
    ELSE ModifiersReversed(Tail(modifier_codes)) \o ":" \o Head(modifier_codes)

RECURSIVE Modifiers(_)
Modifiers(modifier_codes) ==
    IF Len(modifier_codes) = 0 THEN ""
    ELSE ":" \o Head(modifier_codes) \o Modifiers(Tail(modifier_codes))

(* LX, SV1 and DTP of the service line at index i *)
ServiceLineSegments(service, i) ==
    << <<"LX", ToString(i + 1)>>,
       <<"SV1", "HC>" \o service.procedureCode
                  \o Modifiers(service.modifierCodes),
         FloatStr(service.chargeAmount), "UN",
         ToString(service.units) \o ".0", "", "", "1">> >>
    \o (IF service.serviceDate /= ""
        THEN << <<"DTP", "472", "D8", service.serviceDate>> >>
        ELSE <<>>)

(* the rendering provider of a service line, given its name segment *)
ServiceLineRendering(provider, name_segment) ==
    [ pm |-> name_segment.pm,
      ret |-> IF name_segment.ret /= None
              THEN << name_segment.ret,
                      <<"PRV", "PE", "PXC", provider.taxonomyCode>> >>
              ELSE <<>> ]

(* a loop body that leaves the rendering provider of the line out *)
ServiceLineUnreferenced(self, pm, i) ==
    [pm |-> pm, ret |-> ServiceLineSegments(At(self.service_lines, i), i)]

(* the body of the loop over service_lines, for the line at index i *)
ServiceLine(self, pm, i) ==
    LET service == At(self.service_lines, i)
        referenced ==
            /\ hasattr(self, "rendering_providers")
            /\ service.renderingProviderIndex /= None
            /\ 0 <= service.renderingProviderIndex[1]
            /\ service.renderingProviderIndex[1] < Len(self.rendering_providers)
        provider == At(self.rendering_providers, service.renderingProviderIndex[1])
    IN  Prepend(ServiceLineSegments(service, i),
                IF referenced
                THEN ServiceLineRendering(
                         provider,
                         _create_name_segment(pm, provider, "rendering_provider"))
                ELSE [pm |-> pm, ret |-> <<>>])

(* the segments so far in acc, then those of r *)
Extend(acc, r) == [pm |-> r.pm, ret |-> acc.ret \o r.ret]

RECURSIVE ServiceLinesFrom(_, _, _)
ServiceLinesFrom(self, acc, i) ==
    IF i >= Len(self.service_lines)
    THEN acc
    ELSE ServiceLinesFrom(self, Extend(acc, ServiceLine(self, acc.pm, i)), i + 1)

_create_service_lines(self, pm) ==
    IF Len(self.service_lines) = 0
    THEN [pm |-> pm, ret |-> <<>>]
    ELSE ServiceLinesFrom(self, [pm |-> pm, ret |-> <<>>], 0)

_create_payer(self) ==
    <<"NM1", "PR", "2", DictGet(self.payer_info, "organizationName", ""),
      "", "", "", "", "PI", DictGet(self.payer_info, "payerId", "")>>

(* a trailing loop that writes the specialty whether or not the name is *)
(* written                                                              *)
RenderingProviderSegmentsAlwaysSpecialty(rp, name_segment) ==
    [ pm |-> name_segment.pm,
      ret |-> (IF name_segment.ret /= None THEN <<name_segment.ret>> ELSE <<>>)
              \o << <<"PRV", "PE", "PXC", DictGet(rp, "taxonomyCode", "None")>> >> ]

(* the name and specialty segments of rendering provider rp *)
RenderingProviderSegments(rp, name_segment) ==
    [ pm |-> name_segment.pm,
      ret |-> IF name_segment.ret /= None
              THEN << name_segment.ret,
                      <<"PRV", "PE", "PXC", DictGet(rp, "taxonomyCode", "None")>> >>
              ELSE <<>> ]

RECURSIVE RenderingProvidersFrom(_, _, _)
RenderingProvidersFrom(self, acc, i) ==
    IF i >= Len(self.rendering_providers)
    THEN acc
    ELSE RenderingProvidersFrom(
             self,
             Extend(acc,
                    RenderingProviderSegments(
                        At(self.rendering_providers, i),
                        _create_name_segment(acc.pm,
                                             At(self.rendering_providers, i),
                                             "rendering_provider"))),
             i + 1)

_create_rendering_provider_segments(self, pm) ==
    RenderingProvidersFrom(self, [pm |-> pm, ret |-> <<>>], 0)

_create_trailer(segment_count) ==
    << <<"SE", ToString(segment_count), "415133923">>,
       <<"GE", "1", "415133923">>,
       <<"IEA", "1", "415133923">> >>

----------------------------------------------------------------------------
(* Loop assembler.  A loop state st is [pm, segments, exc]: the registry,  *)
(* the segments so far and the exception raised, "" while none is.         *)

Truthy(dict) == DOMAIN dict /= {}

(* segments.extend(r), with the registry r leaves *)
ExtendSegments(st, r) ==
    [pm |-> r.pm, segments |-> st.segments \o r.ret, exc |-> st.exc]

(* the payer test that follows a subscriber's loop *)
PayerAfter(self, st, sub_idx) ==
    IF ~hasattr(self, "payer_info")
    THEN [st EXCEPT !.exc = "AttributeError"]
    ELSE IF Truthy(self.payer_info) /\ sub_idx = 0
         THEN [st EXCEPT !.segments = Append(@, _create_payer(self))]
         ELSE st

(* a loop over self.subscribers that takes every one of them in each pass *)
RECURSIVE SubscribersFromUnfiltered(_, _, _, _)
SubscribersFromUnfiltered(self, st, provider_idx, sub_idx) ==
    IF st.exc /= "" \/ sub_idx >= Len(self.subscribers)
    THEN st
    ELSE SubscribersFromUnfiltered(
             self,
             PayerAfter(
                 self,
                 ExtendSegments(st, _create_subscriber_loop(self, st.pm, sub_idx)),
                 sub_idx),
             provider_idx, sub_idx + 1)

(* the loop over self.subscribers inside one billing provider's pass *)
RECURSIVE SubscribersFrom(_, _, _, _)
SubscribersFrom(self, st, provider_idx, sub_idx) ==
    IF st.exc /= "" \/ sub_idx >= Len(self.subscribers)
    THEN st
    ELSE SubscribersFrom(
             self,
             IF At(self.subscribers, sub_idx).billingProviderIndex = provider_idx
             THEN PayerAfter(
                      self,
                      ExtendSegments(st, _create_subscriber_loop(self, st.pm, sub_idx)),
                      sub_idx)
             ELSE st,
             provider_idx, sub_idx + 1)

(* the claim, service line and rendering provider steps of a pass, which   *)
(* an exception raised before them skips                                   *)
ClaimAfter(self, st) ==
    IF st.exc /= "" THEN st
    ELSE ExtendSegments(st, _create_claim_information_loop(self, st.pm))

ServiceLinesAfter(self, st) ==
    IF st.exc /= "" THEN st
    ELSE ExtendSegments(st, _create_service_lines(self, st.pm))

RenderingProvidersAfter(self, st) ==
    IF st.exc /= "" \/ Len(self.rendering_providers) = 0 THEN st
    ELSE ExtendSegments(st, _create_rendering_provider_segments(self, st.pm))

(* the loop over self.billing_providers *)
RECURSIVE BillingProvidersFrom(_, _, _)
BillingProvidersFrom(self, st, provider_idx) ==
    IF st.exc /= "" \/ provider_idx >= Len(self.billing_providers)
    THEN st
    ELSE BillingProvidersFrom(
             self,
             RenderingProvidersAfter(self,
                 ServiceLinesAfter(self,
                     ClaimAfter(self,
                         SubscribersFrom(
                             self,
                             ExtendSegments(
                                 st,
                                 _create_billing_provider_loop(self, st.pm,
                                                               provider_idx)),
                             provider_idx, 0)))),
             provider_idx + 1)

(* a count that takes in every segment appended so far *)
TrailerCountAll(segments) == Len(segments)

(* the count build() hands to _create_trailer *)
TrailerCount(segments) == Len(segments) - 1

(* the trailer and the join: str.join raises TypeError on a None among the *)
(* segments                                                                *)
Finish(st) ==
    IF st.exc /= ""
    THEN [pm |-> st.pm, ret |-> None, exc |-> st.exc]
    ELSE IF \E k \in 1..Len(st.segments) : st.segments[k] = None
         THEN [pm |-> st.pm, ret |-> None, exc |-> "TypeError"]
         ELSE [ pm |-> st.pm,
                ret |-> st.segments \o _create_trailer(TrailerCount(st.segments)),
                exc |-> "" ]

(* [pm, ret, exc]: ret is the transaction, or None when exc was raised *)
build(self, pm) ==
    Finish(BillingProvidersFrom(
               self, [pm |-> pm, segments |-> _create_header, exc |-> ""], 0))

(* open(filename, 'w'): the file is created, or truncated, to empty *)
Open(fs, filename) == DictSet(fs, filename, <<>>)

(* f.write of what build() returned into the opened file; when build()    *)
(* raised, the with statement closes the file as open left it             *)
Write(fs, filename, r) ==
    [ pm |-> r.pm, ret |-> r.ret, exc |-> r.exc,
      files |-> IF r.exc = "" THEN DictSet(fs, filename, r.ret) ELSE fs ]

(* the files are a dict from filename to the text, a sequence of segments *)
to_file(self, pm, fs, filename) ==
    Write(Open(fs, filename), filename, build(self, pm))

----------------------------------------------------------------------------
(* Bounds and the inputs the operations are called with *)

MaxAdds == 5

MaxBillingProviders == 2

MaxSubscribers == 2

MaxServiceLines == 2

MaxRenderingProviders == 1

MaxBuilds == 2

NPIs == {"", "1234567890", "1987654321"}

Address ==
    [ address1 |-> "1 Main St", city |-> "Springfield", state |-> "IL",
      postalCode |-> "62701" ]

ContactInfos == { [name |-> "Ruth Handler", phoneNumber |-> "8458130000"] }

(* the contacts a submitter or a practice may hand in *)
Contacts ==
    ContactInfos \cup { [name |-> "Elliot Handler", phoneNumber |-> "8458130001"] }

(* the organization name of the practice that hands in a contact, or none *)
Practice(contactInfo) ==
    IF contactInfo = None THEN "Acme Clinic"
    ELSE contactInfo.name \o " Practice"

ModifierLists == {<<>>, <<"25">>, <<"25", "59">>, <<"59", "25">>}

Filenames == {"out.edi"}

(* the subscriber added at store index n carries that index in its names *)
MemberId(n) == "M" \o ToString(n)

LastName(n) == "L" \o ToString(n)

FirstName(n) == "F" \o ToString(n)

BirthDate(n) == "1980010" \o ToString(n + 1)

Singletons ==
    {"payer_info", "claim_information", "service_facility", "prior_authorization"}

(* the number of add calls a store shows *)
Adds(self) ==
    Len(self.billing_providers) + Len(self.subscribers)
    + Len(self.service_lines) + Len(self.rendering_providers)
    + Cardinality({a \in Singletons : hasattr(self, a)})
    + (IF self.submitter /= <<>> THEN 1 ELSE 0)

Room(T) == \A i \in T : Adds(builder[i]) < MaxAdds

----------------------------------------------------------------------------
(* Actions.  T is the set of builders that receive the call, op the method *)
(* called with its arguments, as a function of the receiver; an add call   *)
(* ends the run of consecutive build() results kept in builds.             *)

Receivers(T) == {builder[i] : i \in T}

Init ==
    /\ builder = [i \in BuilderIds |-> EDI837Builder(i)]
    /\ heap = [r \in {EDI837Builder(i).provider_map : i \in BuilderIds} |-> <<>>]
    /\ builds = [i \in BuilderIds |-> <<>>]
    /\ files = <<>>

Call(T, op) ==
    /\ builder' = [i \in BuilderIds |->
                       IF i \in T THEN op[builder[i]] ELSE builder[i]]
    /\ builds' = [i \in BuilderIds |-> IF i \in T THEN <<>> ELSE builds[i]]
    /\ UNCHANGED <<heap, files>>

AddBillingProvider(T) ==
    /\ Room(T)
    /\ \A i \in T : Len(builder[i].billing_providers) < MaxBillingProviders
    /\ \E npi \in NPIs, contactInfo \in {None} :
           Call(T, [self \in Receivers(T) |->
                    add_billing_provider(self, npi, "207Q00000X", "123456789",
                                         Address, "Acme Clinic", "", "",
                                         contactInfo)])

AddSubscriber(T) ==
    /\ Room(T)
    /\ \E n \in 0..(MaxSubscribers - 1),
          billing_provider_index \in 0..(MaxBillingProviders - 1),
          payment_responsibility_code \in PaymentResponsibilityLevelCode,
          is_dependent \in BOOLEAN :
        /\ \A i \in T : Len(builder[i].subscribers) = n
        /\ is_dependent \/ payment_responsibility_code = "Primary"
        /\ Call(T, [self \in Receivers(T) |->
                    add_subscriber(self, MemberId(n), LastName(n), FirstName(n),
                                   Address, BirthDate(n), "F",
                                   billing_provider_index,
                                   payment_responsibility_code, "Commercial",
                                   is_dependent, "")])

AddSubmitter(T) ==
    /\ Room(T)
    /\ \E contactInfo \in Contacts :
           Call(T, [self \in Receivers(T) |-> add_submitter(self, contactInfo)])

AddPayer(T) ==
    /\ Room(T)
    /\ Call(T, [self \in Receivers(T) |-> add_payer(self, 0, "Payer Inc", "WIMCD")])

AddServiceFacilityLocation(T) ==
    /\ Room(T)
    /\ \E npi \in NPIs :
           Call(T, [self \in Receivers(T) |->
                    add_service_facility_location(self, npi, "Acme Lab", Address)])

AddPriorAuthorization(T) ==
    /\ Room(T)
    /\ Call(T, [self \in Receivers(T) |-> add_prior_authorization(self, "PA1")])

AddClaimInformation(T) ==
    /\ Room(T)
    /\ Call(T, [self \in Receivers(T) |->
                add_claim_information(self, 0, "PCN1", 15000, "11", "1", "Y",
                                      "A", "Y", "Y", None)])

AddServiceLine(T) ==
    /\ Room(T)
    /\ \A i \in T : Len(builder[i].service_lines) < MaxServiceLines
    /\ \E rendering_provider_index \in
              {None} \cup {Some(k) : k \in 0..(MaxRenderingProviders - 1)} :
           Call(T, [self \in Receivers(T) |->
                    add_service_line(self, 0, None, "99213", <<>>, 15000, 1,
                                     "20240702", rendering_provider_index)])

AddRenderingProvider(T) ==
    /\ Room(T)
    /\ \A i \in T : Len(builder[i].rendering_providers) < MaxRenderingProviders
    /\ \E npi \in NPIs :
           Call(T, [self \in Receivers(T) |->
                    add_rendering_provider(self, npi, "207Q00000X", "Doe",
                                           "Jane", "987654321")])

(* add_billing_provider with or without contact information *)
AddBillingProviderContact(T) ==
    /\ Room(T)
    /\ \A i \in T : Len(builder[i].billing_providers) < MaxBillingProviders
    /\ \E npi \in NPIs, contactInfo \in {None} \cup ContactInfos :
           Call(T, [self \in Receivers(T) |->
                    add_billing_provider(self, npi, "207Q00000X", "123456789",
                                         Address, "Acme Clinic", "", "",
                                         contactInfo)])

(* add_billing_provider for a practice named after the contact it hands in *)
AddPractice(T) ==
    /\ Room(T)
    /\ \A i \in T : Len(builder[i].billing_providers) < MaxBillingProviders
    /\ \E npi \in NPIs, contactInfo \in {None} \cup Contacts :
           Call(T, [self \in Receivers(T) |->
                    add_billing_provider(self, npi, "207Q00000X", "123456789",
                                         Address, Practice(contactInfo), "", "",
                                         contactInfo)])

(* add_service_line with or without modifier codes *)
AddServiceLineModifiers(T) ==
    /\ Room(T)
    /\ \A i \in T : Len(builder[i].service_lines) < MaxServiceLines
    /\ \E modifier_codes \in ModifierLists,
          rendering_provider_index \in
              {None} \cup {Some(k) : k \in 0..(MaxRenderingProviders - 1)} :
           Call(T, [self \in Receivers(T) |->
                    add_service_line(self, 0, None, "99213", modifier_codes,
                                     15000, 1, "20240702",
                                     rendering_provider_index)])

Returned(i, pm, r) ==
    /\ heap' = [heap EXCEPT ![builder[i].provider_map] = r.pm]
    /\ builds' = [builds EXCEPT ![i] =
                     Append(@, [ret |-> r.ret, exc |-> r.exc, fresh |-> pm = <<>>])]

(* a build() that uses up the service lines it has written *)
BuildConsuming(i) ==
    /\ Len(builds[i]) < MaxBuilds
    /\ Returned(i, heap[builder[i].provider_map],
                build(builder[i], heap[builder[i].provider_map]))
    /\ builder' = [builder EXCEPT ![i].service_lines = <<>>]
    /\ UNCHANGED files

(* build() on builder i: the registry its provider_map refers to is        *)
(* updated in place, also when the call raises.  The result is kept with   *)
(* fresh, whether the registry was empty when build() was called.          *)
Build(i) ==
    /\ Len(builds[i]) < MaxBuilds
    /\ Returned(i, heap[builder[i].provider_map],
                build(builder[i], heap[builder[i].provider_map]))
    /\ UNCHANGED <<builder, files>>

(* to_file(filename) on builder i: the file system after the call, and the *)
(* outcome of its build()                                                  *)
Wrote(i, pm, r) ==
    /\ Returned(i, pm, r)
    /\ files' = r.files

ToFile(i) ==
    /\ Len(builds[i]) < MaxBuilds
    /\ \E filename \in Filenames :
           Wrote(i, heap[builder[i].provider_map],
                 to_file(builder[i], heap[builder[i].provider_map], files,
                         filename))
    /\ UNCHANGED builder

Next ==
    \/ AddBillingProvider({1})
    \/ AddSubscriber({1})
    \/ AddPayer({1})
    \/ AddServiceFacilityLocation({1})
    \/ AddPriorAuthorization({1})
    \/ AddClaimInformation({1})
    \/ AddServiceLine({1})
    \/ AddRenderingProvider({1})
    \/ Build(1)

Spec == Init /\ [][Next]_vars

(* Two builders receive the same add calls, then each is built *)
NoBuildYet == \A i \in BuilderIds : builds[i] = <<>>

NextPair ==
    \/ NoBuildYet /\ AddBillingProvider(BuilderIds)
    \/ NoBuildYet /\ AddSubscriber(BuilderIds)
    \/ NoBuildYet /\ AddPayer(BuilderIds)
    \/ NoBuildYet /\ AddServiceFacilityLocation(BuilderIds)
    \/ NoBuildYet /\ AddPriorAuthorization(BuilderIds)
    \/ NoBuildYet /\ AddClaimInformation(BuilderIds)
    \/ NoBuildYet /\ AddServiceLine(BuilderIds)
    \/ NoBuildYet /\ AddRenderingProvider(BuilderIds)
    \/ \E i \in BuilderIds : Build(i)

SpecPair == Init /\ [][NextPair]_vars

(* One builder whose billing providers may carry contact information and  *)
(* whose service lines may carry modifier codes.                           *)
NextDetail ==
    \/ AddBillingProviderContact({1})
    \/ AddServiceLineModifiers({1})
    \/ AddRenderingProvider({1})
    \/ AddClaimInformation({1})
    \/ Build(1)

SpecDetail == Init /\ [][NextDetail]_vars

(* One builder written to a file instead of built *)
NextFile ==
    \/ AddBillingProvider({1})
    \/ AddSubscriber({1})
    \/ AddPayer({1})
    \/ ToFile(1)

SpecFile == Init /\ [][NextFile]_vars

(* Two builders called in any order: the calls that reach the registry *)
NextFree ==
    \E i \in BuilderIds :
        \/ AddBillingProvider({i})
        \/ AddRenderingProvider({i})
        \/ Build(i)

SpecFree == Init /\ [][NextFree]_vars

(* One builder with a submitter and practices that hand in contacts *)
NextContact ==
    \/ AddSubmitter({1})
    \/ AddPractice({1})
    \/ Build(1)

SpecContact == Init /\ [][NextContact]_vars

----------------------------------------------------------------------------
(* Reading a transaction *)

(* the results of the consecutive build() calls on the first builder *)
Results == builds[1]

Store == builder[1]

Returned1 == {k \in 1..Len(Results) : Results[k].exc = ""}

Positions(out, Is(_)) == {p \in 1..Len(out) : Is(out[p])}

Count(out, Is(_)) == Cardinality(Positions(out, Is))

IsTag(seg, tag) == seg[1] = tag

IsProviderName(seg) == seg[1] = "NM1" /\ seg[2] \in {"85", "82", "77"}

IsPayerName(seg) == seg[1] = "NM1" /\ seg[2] = "PR"

IsBillingHL(seg) == seg[1] = "HL" /\ seg[4] = "20"

IsSubscriberHL(seg) == seg[1] = "HL" /\ seg[4] = "22"

IsDependentHL(seg) == seg[1] = "HL" /\ seg[4] = "23"

(* the subscribers whose billingProviderIndex is a billing provider's index *)
Emitted(self) ==
    {n \in 0..(Len(self.subscribers) - 1) :
        /\ At(self.subscribers, n).billingProviderIndex >= 0
        /\ At(self.subscribers, n).billingProviderIndex < Len(self.billing_providers)}

SubscriberName(n) ==
    <<"NM1", "IL", "1", LastName(n), FirstName(n), "", "", "", "MI", MemberId(n)>>

Demographics(n) == <<"DMG", "D8", BirthDate(n), "F">>

----------------------------------------------------------------------------
(* C1: build() called twice with no add call in between returns the same   *)
(* text, provider name and address segments included.                      *)
C1_RepeatedBuildSameText ==
    \A k \in 1..(Len(Results) - 1) :
        (Results[k].exc = "" /\ Results[k + 1].exc = "")
            => Results[k + 1].ret = Results[k].ret

----------------------------------------------------------------------------
(* The provider occurrences of one build() in the order they are processed: *)
(* for every billing provider, the provider itself, then the service        *)
(* facility of the claim, the rendering providers the service lines refer   *)
(* to, and every rendering provider.                                        *)
LineProviders(self) ==
    LET refs == SelectSeq(self.service_lines,
                          LAMBDA l : /\ l.renderingProviderIndex /= None
                                     /\ l.renderingProviderIndex[1] >= 0
                                     /\ l.renderingProviderIndex[1]
                                            < Len(self.rendering_providers))
    IN  [ j \in 1..Len(refs) |->
            [ code |-> "82",
              npi |-> At(self.rendering_providers,
                         refs[j].renderingProviderIndex[1]).npi ] ]

PassProviders(self) ==
    (IF hasattr(self, "claim_information") /\ hasattr(self, "service_facility")
     THEN << [code |-> "77", npi |-> self.service_facility.npi] >>
     ELSE <<>>)
    \o LineProviders(self)
    \o [ j \in 1..Len(self.rendering_providers) |->
           [code |-> "82", npi |-> self.rendering_providers[j].npi] ]

Occurrences(self) ==
    LET pass == PassProviders(self)
        width == 1 + Len(pass)
    IN  [ k \in 1..(Len(self.billing_providers) * width) |->
            IF (k - 1) % width = 0
            THEN [ code |-> "85",
                   npi |-> At(self.billing_providers, (k - 1) \div width).npi ]
            ELSE pass[(k - 1) % width] ]

IsFirstOccurrence(occ, k) ==
    /\ occ[k].npi /= ""
    /\ \A j \in 1..(k - 1) : occ[j].npi /= occ[k].npi

RECURSIVE FirstOccurrences(_, _)
FirstOccurrences(occ, k) ==
    IF k > Len(occ) THEN <<>>
    ELSE (IF IsFirstOccurrence(occ, k) THEN <<occ[k]>> ELSE <<>>)
         \o FirstOccurrences(occ, k + 1)

ProviderNames(out) ==
    LET names == SelectSeq(out, IsProviderName)
    IN  [ j \in 1..Len(names) |-> [code |-> names[j][2], npi |-> names[j][10]] ]

(* C2: in one build() that starts with an empty registry, the provider     *)
(* name segments are those of the first occurrence of every non-empty NPI, *)
(* in processing order; a billing provider or facility name is followed by *)
(* its N3 and N4, no N3 or N4 stands without its name; and build() raises  *)
(* for nothing but the missing payer.                                      *)
C2_FirstOccurrenceOnly ==
    \A k \in 1..Len(Results) :
        Results[k].fresh =>
            /\ Results[k].exc /= "" =>
                   Results[k].exc = "AttributeError" /\ ~hasattr(Store, "payer_info")
            /\ Results[k].exc = "" =>
                 LET out == Results[k].ret
                 IN  /\ ProviderNames(out) = FirstOccurrences(Occurrences(Store), 1)
                     /\ \A p \in 1..Len(out) :
                          /\ (IsProviderName(out[p]) /\ out[p][2] \in {"85", "77"})
                                 => out[p + 1][1] = "N3" /\ out[p + 2][1] = "N4"
                          /\ out[p][1] = "N3"
                                 => \/ out[p - 1][1] = "NM1"
                                    \/ IsDependentHL(out[p - 1])
                          /\ out[p][1] = "N4" => out[p - 1][1] = "N3"

C2_Witness ==
    \E k \in 1..Len(Results) :
        /\ Results[k].fresh
        /\ Results[k].exc = ""
        /\ LET occ == Occurrences(Store)
           IN  /\ \E i, j \in 1..Len(occ) :
                      i < j /\ occ[i].npi = occ[j].npi /\ occ[i].npi /= ""
                            /\ occ[i].code /= occ[j].code
               /\ \E i \in 1..Len(occ) : occ[i].npi = ""

----------------------------------------------------------------------------
(* the last segment of the loop of the subscriber at store index 0 *)
IsEndOfFirstSubscriber(self, seg) ==
    IF At(self.subscribers, 0).is_dependent \/ Len(self.subscribers) = 1
    THEN seg = Demographics(0)
    ELSE seg = SubscriberName(0)

(* C3: without add_payer build() returns and has no NM1*PR segment; with   *)
(* add_payer, and the subscriber at store index 0 under a billing provider *)
(* of the store, the text has exactly one NM1*PR segment, right after the  *)
(* loop of that subscriber.                                                *)
C3_PayerSegment ==
    \A k \in 1..Len(Results) :
        IF ~hasattr(Store, "payer_info")
        THEN /\ Results[k].exc = ""
             /\ Count(Results[k].ret, IsPayerName) = 0
        ELSE 0 \in Emitted(Store) =>
                 /\ Results[k].exc = ""
                 /\ Count(Results[k].ret, IsPayerName) = 1
                 /\ \A p \in Positions(Results[k].ret, IsPayerName) :
                        IsEndOfFirstSubscriber(Store, Results[k].ret[p - 1])

----------------------------------------------------------------------------
(* the store of one billing provider, one subscriber of it, one claim and  *)
(* one service line without modifiers or rendering provider                *)
SingleClaimStore(self) ==
    /\ Len(self.billing_providers) = 1
    /\ Len(self.subscribers) = 1
    /\ ~At(self.subscribers, 0).is_dependent
    /\ At(self.subscribers, 0).billingProviderIndex = 0
    /\ hasattr(self, "claim_information")
    /\ Len(self.service_lines) = 1
    /\ At(self.service_lines, 0).modifierCodes = <<>>
    /\ At(self.service_lines, 0).renderingProviderIndex = None
    /\ Len(self.rendering_providers) = 0
    /\ ~hasattr(self, "payer_info")
    /\ ~hasattr(self, "service_facility")
    /\ ~hasattr(self, "prior_authorization")

(* C4: build() on that store returns a transaction with exactly one        *)
(* HL*1**20*1, one HL*2*1*22*0, one CLM, one LX*1 and one SV1 segment.     *)
C4_SingleClaimScenario ==
    \A k \in 1..Len(Results) :
        SingleClaimStore(Store) =>
            /\ Results[k].exc = ""
            /\ Count(Results[k].ret, LAMBDA s : s = <<"HL", "1", "", "20", "1">>) = 1
            /\ Count(Results[k].ret, LAMBDA s : s = <<"HL", "2", "1", "22", "0">>) = 1
            /\ Count(Results[k].ret, LAMBDA s : IsTag(s, "CLM")) = 1
            /\ Count(Results[k].ret, LAMBDA s : s = <<"LX", "1">>) = 1
            /\ Count(Results[k].ret, LAMBDA s : IsTag(s, "SV1")) = 1

----------------------------------------------------------------------------
(* C5: the text has exactly one CLM segment when the store has claim       *)
(* information, whatever the number of billing providers, and none when it *)
(* has not.                                                                *)
C5_OneClaimLoop ==
    \A k \in Returned1 :
        Count(Results[k].ret, LAMBDA s : IsTag(s, "CLM"))
            = (IF hasattr(Store, "claim_information") THEN 1 ELSE 0)

----------------------------------------------------------------------------
(* C6: every HL segment that opens a billing provider loop (PRV*BI follows) *)
(* is HL*1**20, every one that opens a subscriber loop (SBR follows) is     *)
(* HL*2*1*22, every other one is the dependent's HL*3*2*23*0; and there is  *)
(* one per billing provider, emitted subscriber and emitted dependent.      *)
C6_HLNumbering ==
    \A k \in Returned1 :
        LET out == Results[k].ret
        IN  /\ \A p \in Positions(out, LAMBDA s : IsTag(s, "HL")) :
                 IF out[p + 1][1] = "PRV" /\ out[p + 1][2] = "BI"
                 THEN out[p][2] = "1" /\ out[p][3] = "" /\ out[p][4] = "20"
                 ELSE IF out[p + 1][1] = "SBR"
                      THEN out[p][2] = "2" /\ out[p][3] = "1" /\ out[p][4] = "22"
                      ELSE out[p] = <<"HL", "3", "2", "23", "0">>
            /\ Count(out, IsBillingHL) = Len(Store.billing_providers)
            /\ Count(out, IsSubscriberHL)
                   = Cardinality({n \in Emitted(Store) :
                                     ~At(Store.subscribers, n).is_dependent})
            /\ Count(out, IsDependentHL)
                   = Cardinality({n \in Emitted(Store) :
                                     At(Store.subscribers, n).is_dependent})

C6_Witness ==
    \E k \in Returned1 :
        /\ Count(Results[k].ret, IsBillingHL) = 2
        /\ Count(Results[k].ret, IsSubscriberHL) = 1
        /\ Count(Results[k].ret, IsDependentHL) = 1

----------------------------------------------------------------------------
(* C7: the count in the SE segment is the number of segments of the text   *)
(* other than ISA, GS, GE and IEA.                                         *)
C7_TrailerCount ==
    \A k \in Returned1 :
        LET out == Results[k].ret
        IN  /\ Count(out, LAMBDA s : IsTag(s, "SE")) = 1
            /\ \A p \in Positions(out, LAMBDA s : IsTag(s, "SE")) :
                   out[p][2] = ToString(Count(out, LAMBDA s :
                                   s[1] \notin {"ISA", "GS", "GE", "IEA"}))

C7_Witness ==
    \E k \in Returned1 :
        /\ Count(Results[k].ret, LAMBDA s : IsTag(s, "CLM")) = 1
        /\ Count(Results[k].ret, LAMBDA s : IsTag(s, "SV1")) = 1
        /\ Count(Results[k].ret, IsSubscriberHL) = 1

----------------------------------------------------------------------------
(* C8: two builders constructed apart and given the same add calls return  *)
(* the same from their first build(), whichever is built first.            *)
SameStore ==
    [builder[1] EXCEPT !.provider_map = 0] = [builder[2] EXCEPT !.provider_map = 0]

C8_FreshBuildersAgree ==
    (SameStore /\ Len(builds[1]) >= 1 /\ Len(builds[2]) >= 1)
        => /\ builds[1][1].ret = builds[2][1].ret
           /\ builds[1][1].exc = builds[2][1].exc

C8_Witness ==
    /\ SameStore
    /\ Len(builds[1]) >= 1 /\ Len(builds[2]) >= 1
    /\ builds[1][1].exc = "" /\ builds[2][1].exc = ""
    /\ Count(builds[2][1].ret, IsProviderName) >= 2
    /\ Count(builds[2][1].ret, IsSubscriberHL) = 1

----------------------------------------------------------------------------
(* the dependents that follow a subscriber in the store and are emitted *)
DependentsAfterSubscriber(self) ==
    {n \in Emitted(self) :
        /\ At(self.subscribers, n).is_dependent
        /\ \E m \in 0..(n - 1) : ~At(self.subscribers, m).is_dependent}

IsPrimary(self, n) == At(self.subscribers, n).paymentResponsibilityLevelCode = "P"

(* C9: such a dependent emits HL*3*2*23*0, then PAT*01 and NM1*QC*1 with   *)
(* its names only if its payment responsibility is Primary, then N3, N4    *)
(* and DMG, consecutively; PAT and NM1*QC come from Primary dependents     *)
(* alone.                                                                  *)
C9_DependentSegments ==
    \A k \in Returned1 :
        LET out == Results[k].ret
        IN  /\ \A n \in DependentsAfterSubscriber(Store) :
                 \E p \in Positions(out, LAMBDA s : s = Demographics(n)) :
                     /\ out[p - 1][1] = "N4"
                     /\ out[p - 2] = <<"N3", Address.address1>>
                     /\ IF IsPrimary(Store, n)
                        THEN /\ out[p - 3] = <<"NM1", "QC", "1", LastName(n),
                                               FirstName(n)>>
                             /\ out[p - 4] = <<"PAT", "01">>
                             /\ out[p - 5] = <<"HL", "3", "2", "23", "0">>
                        ELSE out[p - 3] = <<"HL", "3", "2", "23", "0">>
            /\ Count(out, LAMBDA s : IsTag(s, "PAT"))
                   = Cardinality({n \in Emitted(Store) :
                                     /\ At(Store.subscribers, n).is_dependent
                                     /\ IsPrimary(Store, n)})
            /\ Count(out, LAMBDA s : s[1] = "NM1" /\ s[2] = "QC")
                   = Count(out, LAMBDA s : IsTag(s, "PAT"))

C9_Witness ==
    \E k \in Returned1 :
        \E n \in DependentsAfterSubscriber(Store) :
            /\ ~IsPrimary(Store, n)
            /\ Count(Results[k].ret, LAMBDA s : s = Demographics(n)) = 1

----------------------------------------------------------------------------
EmittedSubscribers(self) ==
    {n \in Emitted(self) : ~At(self.subscribers, n).is_dependent}

(* whether N3, N4 and DMG of subscriber n follow the segment at p *)
AddressFollows(out, p, n) ==
    /\ out[p + 1] = <<"N3", Address.address1>>
    /\ out[p + 2][1] = "N4"
    /\ out[p + 3] = Demographics(n)

NothingFollows(out, p) == out[p + 1][1] \notin {"N3", "N4", "DMG"}

(* C10 as stated: a non-dependent subscriber emits N3, N4 and DMG after    *)
(* its name exactly when it is at store index 0.                           *)
C10_AddressAtIndexZero ==
    \A k \in Returned1 :
        \A n \in EmittedSubscribers(Store) :
            \A p \in Positions(Results[k].ret, LAMBDA s : s = SubscriberName(n)) :
                IF n = 0
                THEN AddressFollows(Results[k].ret, p, n)
                ELSE NothingFollows(Results[k].ret, p)

(* C10 amended: a non-dependent subscriber emits its name once, and N3, N4 *)
(* and DMG after it exactly when it is the only entry of the subscriber    *)
(* store; in a store of two or more entries no subscriber emits them.      *)
C10_AddressOnlyWhenAlone ==
    \A k \in Returned1 :
        \A n \in EmittedSubscribers(Store) :
            /\ Count(Results[k].ret, LAMBDA s : s = SubscriberName(n)) = 1
            /\ \A p \in Positions(Results[k].ret, LAMBDA s : s = SubscriberName(n)) :
                   IF Len(Store.subscribers) = 1
                   THEN AddressFollows(Results[k].ret, p, n)
                   ELSE NothingFollows(Results[k].ret, p)

C10_Witness ==
    \E k \in Returned1 :
        /\ Len(Store.subscribers) = 2
        /\ 0 \in EmittedSubscribers(Store)
        /\ At(Store.subscribers, 1).is_dependent
        /\ \E p \in Positions(Results[k].ret, LAMBDA s : s = SubscriberName(0)) :
               NothingFollows(Results[k].ret, p)

----------------------------------------------------------------------------
(* the first element of SV1 for a procedure code and at most two modifiers *)
Composite(procedure_code, modifier_codes) ==
    IF Len(modifier_codes) = 0 THEN "HC>" \o procedure_code
    ELSE IF Len(modifier_codes) = 1
         THEN "HC>" \o procedure_code \o ":" \o modifier_codes[1]
         ELSE "HC>" \o procedure_code \o ":" \o modifier_codes[1]
                  \o ":" \o modifier_codes[2]

(* C11: every service line gives one SV1 segment per billing provider,     *)
(* after its LX, whose first element is HC>P followed by the modifier      *)
(* codes in list order, each after a colon, and HC>P alone without         *)
(* modifiers.                                                              *)
C11_ModifierComposite ==
    \A k \in Returned1 :
        LET out == Results[k].ret
        IN  /\ Count(out, LAMBDA s : IsTag(s, "SV1"))
                   = Len(Store.service_lines) * Len(Store.billing_providers)
            /\ \A p \in Positions(out, LAMBDA s : IsTag(s, "SV1")) :
                   \E i \in 0..(Len(Store.service_lines) - 1) :
                       /\ out[p - 1] = <<"LX", ToString(i + 1)>>
                       /\ out[p][2] =
                              Composite(At(Store.service_lines, i).procedureCode,
                                        At(Store.service_lines, i).modifierCodes)

C11_Witness ==
    \E k \in Returned1 :
        /\ Len(Store.service_lines) = 1
        /\ At(Store.service_lines, 0).modifierCodes = <<"59", "25">>
        /\ \E p \in 1..Len(Results[k].ret) :
               /\ Results[k].ret[p][1] = "SV1"
               /\ Results[k].ret[p][2] = "HC>99213:59:25"

----------------------------------------------------------------------------
(* C12: an add call with an empty required field fails and adds nothing,   *)
(* so no store holds a billing or rendering provider without NPI, a        *)
(* subscriber without member id or address component, or a service line    *)
(* without procedure code.                                                 *)
C12_MissingRequiredFieldRejected ==
    /\ \A j \in 1..Len(Store.billing_providers) :
           Store.billing_providers[j].npi /= ""
    /\ \A j \in 1..Len(Store.rendering_providers) :
           Store.rendering_providers[j].npi /= ""
    /\ \A j \in 1..Len(Store.subscribers) :
           /\ Store.subscribers[j].memberId /= ""
           /\ Store.subscribers[j].address.address1 /= ""
           /\ Store.subscribers[j].address.city /= ""
           /\ Store.subscribers[j].address.state /= ""
           /\ Store.subscribers[j].address.postalCode /= ""
    /\ \A j \in 1..Len(Store.service_lines) :
           Store.service_lines[j].procedureCode /= ""

----------------------------------------------------------------------------
(* a service line or subscriber that names an index nothing is stored at *)
Dangling(self) ==
    \/ \E j \in 1..Len(self.service_lines) :
           /\ self.service_lines[j].renderingProviderIndex /= None
           /\ self.service_lines[j].renderingProviderIndex[1]
                  \notin 0..(Len(self.rendering_providers) - 1)
    \/ \E j \in 1..Len(self.subscribers) :
           self.subscribers[j].billingProviderIndex
               \notin 0..(Len(self.billing_providers) - 1)

(* C13: build() on a store with such a reference ends with                 *)
(* DanglingIndexReference and returns no text.                             *)
C13_DanglingIndexAborts ==
    \A k \in 1..Len(Results) :
        Dangling(Store) =>
            /\ Results[k].exc = "DanglingIndexReference"
            /\ Results[k].ret = <<>>

----------------------------------------------------------------------------
(* a step in which a build() of the first builder raised *)
BuildRaised ==
    /\ Len(builds'[1]) = Len(builds[1]) + 1
    /\ builds'[1][Len(builds'[1])].exc /= ""

(* C14: a to_file call whose build() raises leaves every file as it was:   *)
(* none created, none truncated.                                           *)
C14_FailedToFileWritesNothing == [][BuildRaised => files' = files]_vars

----------------------------------------------------------------------------
(* the contexts of _create_name_segment *)
Contexts ==
    ProviderContexts \cup {"subscriber", "patient", "payer", "submitter", "receiver"}

(* entities with an NPI, empty or not, and one without the key *)
Entities == {[npi |-> npi] : npi \in NPIs} \cup {[memberId |-> MemberId(0)]}

Registry == heap[Store.provider_map]

(* what the check on registry pm answered, r, is what C15 says *)
RegistryAnswer(pm, entity_data, npi, context, r) ==
    IF context \in ProviderContexts
    THEN IF npi = "" \/ npi \in DOMAIN pm
         THEN r.ret = FALSE /\ r.pm = pm
         ELSE /\ r.ret = TRUE
              /\ DOMAIN r.pm = DOMAIN pm \cup {npi}
              /\ r.pm[npi] = entity_data
              /\ \A k \in DOMAIN pm : r.pm[k] = pm[k]
    ELSE r.ret = TRUE /\ r.pm = pm

(* C15: on every registry a builder reaches, the check for a provider      *)
(* context answers false and changes nothing when the NPI is empty,        *)
(* missing or registered, and answers true and adds that NPI alone         *)
(* otherwise; for any other context it answers true and changes nothing.   *)
C15_RegistryCheck ==
    \A entity_data \in Entities, context \in Contexts :
        RegistryAnswer(Registry, entity_data, DictGet(entity_data, "npi", ""),
                       context,
                       _can_create_provider(Registry, entity_data, context))

C15_Witness ==
    /\ \E npi \in NPIs : npi /= "" /\ npi \in DOMAIN Registry
    /\ \E npi \in NPIs : npi /= "" /\ npi \notin DOMAIN Registry
    /\ Len(Results) >= 1

----------------------------------------------------------------------------
(* the NPIs of the providers builder i stores *)
StoredNPIs(i) ==
    {builder[i].billing_providers[j].npi :
         j \in 1..Len(builder[i].billing_providers)}
    \cup {builder[i].rendering_providers[j].npi :
              j \in 1..Len(builder[i].rendering_providers)}
    \cup (IF hasattr(builder[i], "service_facility")
          THEN {builder[i].service_facility.npi} ELSE {})

(* the registry of builder i holds providers of its own store only *)
OwnRegistry ==
    \A i \in BuilderIds :
        DOMAIN heap[builder[i].provider_map] \subseteq StoredNPIs(i)

(* a call on one builder leaves the store, the results and the registry of *)
(* the other as they were                                                  *)
OthersUntouched ==
    \A i \in BuilderIds :
        (builder'[i] = builder[i] /\ builds'[i] = builds[i])
            => heap'[builder'[i].provider_map] = heap[builder[i].provider_map]

(* C16: under any interleaving of the calls of two builders, what a build() *)
(* of one reads, its store and its registry, is changed by its own calls    *)
(* only, and its registry never holds an NPI of the other's build().        *)
C16_BuildersDoNotInterfere == []OwnRegistry /\ [][OthersUntouched]_vars

C16_Witness ==
    /\ Len(builds[1]) = 1 /\ Len(builds[2]) = 1
    /\ builder[1].billing_providers /= builder[2].billing_providers
    /\ \E npi \in NPIs :
           /\ npi /= ""
           /\ \A i \in BuilderIds :
                  /\ npi \in DOMAIN heap[builder[i].provider_map]
                  /\ \E p \in 1..Len(builds[i][1].ret) :
                         /\ IsProviderName(builds[i][1].ret[p])
                         /\ builds[i][1].ret[p][10] = npi

----------------------------------------------------------------------------
(* the emission phase the segment at p belongs to, 0 when it marks none:   *)
(* a rendering provider name is of the trailing loop unless it follows the *)
(* DTP of a service line                                                   *)
Phase(out, p) ==
    IF IsBillingHL(out[p]) THEN 1
    ELSE IF IsSubscriberHL(out[p]) \/ IsDependentHL(out[p]) THEN 2
    ELSE IF IsTag(out[p], "CLM") THEN 3
    ELSE IF IsTag(out[p], "LX") \/ IsTag(out[p], "SV1") THEN 4
    ELSE IF out[p][1] = "NM1" /\ out[p][2] = "82" /\ out[p - 1][1] /= "DTP" THEN 5
    ELSE IF IsTag(out[p], "SE") THEN 6
    ELSE 0

(* C17: in every text the phases follow one another and none comes back:   *)
(* billing provider HL, subscriber and dependent HL, CLM, LX and SV1,      *)
(* trailing rendering providers, SE.                                       *)
C17_PhasesSequential ==
    \A k \in Returned1 :
        \A p, q \in 1..Len(Results[k].ret) :
            (p < q /\ Phase(Results[k].ret, p) > 0 /\ Phase(Results[k].ret, q) > 0)
                => Phase(Results[k].ret, p) <= Phase(Results[k].ret, q)

----------------------------------------------------------------------------
IsSpecialty(seg) == seg[1] = "PRV" /\ seg[2] = "PE"

IsRenderingName(seg) == seg[1] = "NM1" /\ seg[2] = "82"

(* the rendering provider occurrences of a build() that are the first of   *)
(* their NPI                                                               *)
RenderingFirstOccurrences(self) ==
    SelectSeq(FirstOccurrences(Occurrences(self), 1), LAMBDA o : o.code = "82")

(* C18: every PRV*PE segment comes right after the NM1*82 segment of a     *)
(* rendering provider of the store and carries its taxonomy code; there    *)
(* are as many PRV*PE as NM1*82 segments, and in a build() that starts     *)
(* with an empty registry as many as rendering provider occurrences that   *)
(* are not suppressed.                                                     *)
C18_SpecialtyWithName ==
    \A k \in Returned1 :
        LET out == Results[k].ret
        IN  /\ \A p \in Positions(out, IsSpecialty) :
                   /\ IsRenderingName(out[p - 1])
                   /\ \E j \in 1..Len(Store.rendering_providers) :
                          /\ Store.rendering_providers[j].npi = out[p - 1][10]
                          /\ Store.rendering_providers[j].taxonomyCode = out[p][4]
            /\ Count(out, IsSpecialty) = Count(out, IsRenderingName)
            /\ Results[k].fresh
                   => Count(out, IsSpecialty) = Len(RenderingFirstOccurrences(Store))

C18_Witness ==
    \E k \in Returned1 :
        /\ Results[k].fresh
        /\ Count(Results[k].ret, IsSpecialty) = 1
        /\ Len(SelectSeq(Occurrences(Store), LAMBDA o : o.code = "82")) >= 2

----------------------------------------------------------------------------
(* the positions of the billing provider HL segments, in order *)
BillingHLs(out) ==
    SelectSeq([p \in 1..Len(out) |-> p], LAMBDA p : IsBillingHL(out[p]))

IsBillingName(seg) == seg[1] = "NM1" /\ seg[2] = "85"

IsNameOrAddress(seg) == IsBillingName(seg) \/ seg[1] \in {"N3", "N4"}

(* REF*EI at q, then PER exactly if the provider carries contact info, and *)
(* no name or address segment after them                                   *)
FixedSegmentsAt(out, q, provider) ==
    /\ out[q] = <<"REF", "EI", provider.employerId>>
    /\ IF "contactInfo" \in DOMAIN provider
       THEN /\ out[q + 1] = <<"PER", "IC", provider.contactInfo.name, "TE",
                              provider.contactInfo.phoneNumber>>
            /\ ~IsNameOrAddress(out[q + 2])
       ELSE /\ out[q + 1][1] /= "PER"
            /\ ~IsNameOrAddress(out[q + 1])

(* the loop of the provider at p: with or without NM1, N3, N4 *)
BillingLoopAt(out, p, provider) ==
    /\ out[p] = <<"HL", "1", "", "20", "1">>
    /\ out[p + 1] = <<"PRV", "BI", "PXC", provider.taxonomyCode>>
    /\ IF IsBillingName(out[p + 2])
       THEN /\ out[p + 2][10] = provider.npi
            /\ provider.npi /= ""
            /\ out[p + 3][1] = "N3"
            /\ out[p + 4][1] = "N4"
            /\ FixedSegmentsAt(out, p + 5, provider)
       ELSE FixedSegmentsAt(out, p + 2, provider)

(* the place of billing provider j among the provider occurrences *)
BillingOccurrence(self, j) == (j - 1) * (1 + Len(PassProviders(self))) + 1

(* C19: every billing provider has its loop: HL*1**20*1, PRV*BI, then NM1, *)
(* N3, N4 unless the name is suppressed, then REF*EI, then PER if it       *)
(* carries contact info; in a build() that starts with an empty registry   *)
(* the name is suppressed exactly when the NPI is empty or met before.     *)
C19_SuppressedBillingProviderLoop ==
    \A k \in Returned1 :
        LET out == Results[k].ret
        IN  /\ Len(BillingHLs(out)) = Len(Store.billing_providers)
            /\ \A j \in 1..Len(BillingHLs(out)) :
                   /\ BillingLoopAt(out, BillingHLs(out)[j],
                                    Store.billing_providers[j])
                   /\ Results[k].fresh =>
                         (IsBillingName(out[BillingHLs(out)[j] + 2])
                            <=> IsFirstOccurrence(Occurrences(Store),
                                                  BillingOccurrence(Store, j)))

C19_Witness ==
    \E k \in Returned1 :
        \E i, j \in 1..Len(BillingHLs(Results[k].ret)) :
            /\ IsBillingName(Results[k].ret[BillingHLs(Results[k].ret)[i] + 2])
            /\ ~IsBillingName(Results[k].ret[BillingHLs(Results[k].ret)[j] + 2])
            /\ "contactInfo" \in DOMAIN Store.billing_providers[j]
            /\ Store.billing_providers[j].npi /= ""

----------------------------------------------------------------------------
(* the rendering providers, by index, whose NPI is not empty and is that   *)
(* of no other provider or facility of the store                           *)
UniqueRenderingProviders(self) ==
    {j \in 0..(Len(self.rendering_providers) - 1) :
        /\ At(self.rendering_providers, j).npi /= ""
        /\ \A i \in 0..(Len(self.rendering_providers) - 1) :
               i /= j => At(self.rendering_providers, i).npi
                             /= At(self.rendering_providers, j).npi
        /\ \A i \in 0..(Len(self.billing_providers) - 1) :
               At(self.billing_providers, i).npi /= At(self.rendering_providers, j).npi
        /\ hasattr(self, "service_facility")
               => self.service_facility.npi /= At(self.rendering_providers, j).npi}

(* the service lines, by index, that refer to rendering provider j *)
ReferringLines(self, j) ==
    {i \in 0..(Len(self.service_lines) - 1) :
        At(self.service_lines, i).renderingProviderIndex = Some(j)}

IsLineSegment(seg) == seg[1] \in {"LX", "SV1", "DTP"}

(* the name of rendering provider j stands at p, its specialty follows,    *)
(* and it comes right after the first line that refers to it or, when none *)
(* does, after every service line with rendering providers alone between   *)
RenderedAt(self, out, p, j) ==
    /\ out[p + 1] = <<"PRV", "PE", "PXC", At(self.rendering_providers, j).taxonomyCode>>
    /\ IF ReferringLines(self, j) /= {}
       THEN \E i \in ReferringLines(self, j) :
                /\ \A h \in ReferringLines(self, j) : i <= h
                /\ out[p - 1] = <<"DTP", "472", "D8", At(self.service_lines, i).serviceDate>>
                /\ out[p - 2][1] = "SV1"
                /\ out[p - 3] = <<"LX", ToString(i + 1)>>
       ELSE /\ \A q \in Positions(out, IsLineSegment) : q < p
            /\ \A q \in 1..(p - 1) :
                   (\E h \in 1..(q - 1) : IsLineSegment(out[h]))
                       => \/ IsLineSegment(out[q])
                          \/ IsRenderingName(out[q])
                          \/ IsSpecialty(out[q])

(* C20: in a build() that starts with an empty registry, on a store of one *)
(* billing provider, every such rendering provider has exactly one NM1*82  *)
(* segment, placed as RenderedAt says.                                     *)
C20_UniqueRenderingProviderEmitted ==
    \A k \in Returned1 :
        (Results[k].fresh /\ Len(Store.billing_providers) = 1) =>
            \A j \in UniqueRenderingProviders(Store) :
                /\ Count(Results[k].ret,
                         LAMBDA s : IsRenderingName(s)
                                    /\ s[10] = At(Store.rendering_providers, j).npi) = 1
                /\ \A p \in Positions(Results[k].ret,
                         LAMBDA s : IsRenderingName(s)
                                    /\ s[10] = At(Store.rendering_providers, j).npi) :
                       RenderedAt(Store, Results[k].ret, p, j)

C20_Witness ==
    \E k \in Returned1 :
        /\ Results[k].fresh
        /\ Len(Store.billing_providers) = 1
        /\ \E j \in UniqueRenderingProviders(Store) : ReferringLines(Store, j) = {0}
        /\ Len(Store.service_lines) = 2
        /\ Count(Results[k].ret, IsRenderingName) = 1

----------------------------------------------------------------------------
(* the SBR segment stands right before the name of subscriber n, with the *)
(* given relationship code                                                *)
RelationshipBefore(out, p, relationship) ==
    /\ out[p - 1][1] = "SBR"
    /\ out[p - 1][3] = relationship

(* C21 as stated: the SBR of a non-dependent subscriber carries 18 when    *)
(* the subscriber is the only entry or the entry at store index 0, and a   *)
(* blank at any other index.                                               *)
C21_SelfAtIndexZero ==
    \A k \in Returned1 :
        \A n \in EmittedSubscribers(Store) :
            \A p \in Positions(Results[k].ret, LAMBDA s : s = SubscriberName(n)) :
                RelationshipBefore(Results[k].ret, p,
                                   IF n = 0 THEN "18" ELSE "")

(* C21 amended: the SBR of a non-dependent subscriber carries 18 exactly   *)
(* when the subscriber is the only entry of the subscriber store, and a    *)
(* blank in a store of two or more entries, at index 0 too.                *)
C21_SelfOnlyWhenAlone ==
    \A k \in Returned1 :
        \A n \in EmittedSubscribers(Store) :
            \A p \in Positions(Results[k].ret, LAMBDA s : s = SubscriberName(n)) :
                RelationshipBefore(Results[k].ret, p,
                                   IF Len(Store.subscribers) = 1 THEN "18" ELSE "")

C21_Witness ==
    \E k \in Returned1 :
        /\ Len(Store.subscribers) = 2
        /\ 0 \in EmittedSubscribers(Store)
        /\ \E p \in Positions(Results[k].ret, LAMBDA s : s = SubscriberName(0)) :
               RelationshipBefore(Results[k].ret, p, "")

----------------------------------------------------------------------------
(* C22: every subscriber HL segment carries, as its subordinate count, the *)
(* number of entries of the subscriber store less one, whatever follows    *)
(* the subscriber.                                                         *)
C22_SubordinateCount ==
    \A k \in Returned1 :
        /\ \A p \in Positions(Results[k].ret, IsSubscriberHL) :
               Results[k].ret[p][5] = ToString(Len(Store.subscribers) - 1)
        /\ Count(Results[k].ret, IsSubscriberHL)
               = Cardinality(EmittedSubscribers(Store))

C22_Witness ==
    \E k \in Returned1 :
        /\ Len(Store.subscribers) = 2
        /\ EmittedSubscribers(Store) = {0, 1}
        /\ Count(Results[k].ret, LAMBDA s : IsSubscriberHL(s) /\ s[5] = "1") = 2

----------------------------------------------------------------------------
(* the SV1 composite with every part after the sub-element separator *)
SeparatedComposite(procedure_code, modifier_codes) ==
    IF Len(modifier_codes) = 0 THEN "HC>" \o procedure_code
    ELSE IF Len(modifier_codes) = 1
         THEN "HC>" \o procedure_code \o ">" \o modifier_codes[1]
         ELSE "HC>" \o procedure_code \o ">" \o modifier_codes[1]
                  \o ">" \o modifier_codes[2]

(* C23: the first element of every SV1 segment is the qualifier HC, the    *)
(* procedure code and each modifier of a service line, all joined with     *)
(* the sub-element separator ">".                                          *)
C23_ModifiersJoinedWithSeparator ==
    \A k \in Returned1 :
        \A p \in Positions(Results[k].ret, LAMBDA s : IsTag(s, "SV1")) :
            \E i \in 0..(Len(Store.service_lines) - 1) :
                Results[k].ret[p][2] =
                    SeparatedComposite(At(Store.service_lines, i).procedureCode,
                                       At(Store.service_lines, i).modifierCodes)

----------------------------------------------------------------------------
(* C24: a transaction holds exactly one LX segment per service line,       *)
(* numbered 1..n in insertion order, the k-th followed at once by the SV1  *)
(* segment of the k-th service line, whatever the number of billing        *)
(* providers.                                                              *)
C24_OneLoopPerServiceLine ==
    \A k \in Returned1 :
        /\ Count(Results[k].ret, LAMBDA s : IsTag(s, "LX"))
               = Len(Store.service_lines)
        /\ \A i \in 0..(Len(Store.service_lines) - 1) :
               \E p \in Positions(Results[k].ret, LAMBDA s : s = <<"LX", ToString(i + 1)>>) :
                   /\ Results[k].ret[p + 1][1] = "SV1"
                   /\ Results[k].ret[p + 1][2] =
                          Composite(At(Store.service_lines, i).procedureCode,
                                    At(Store.service_lines, i).modifierCodes)
                   /\ \A q \in Positions(Results[k].ret, LAMBDA s : s = <<"LX", ToString(i + 2)>>) :
                          p < q

----------------------------------------------------------------------------
(* the positions of the HL segment that opens the loop of store entry n:   *)
(* a subscriber's is two segments before its name, a dependent's three or  *)
(* five before its demographics                                            *)
DependentOffset(subscriber) ==
    IF PaymentResponsibilityLevelCodeOf(subscriber.paymentResponsibilityLevelCode)
           = "Primary"
    THEN 5 ELSE 3

HLsOf(self, out, n) ==
    {p \in 1..Len(out) :
        IF At(self.subscribers, n).is_dependent
        THEN /\ IsDependentHL(out[p])
             /\ p + DependentOffset(At(self.subscribers, n)) <= Len(out)
             /\ out[p + DependentOffset(At(self.subscribers, n))] = Demographics(n)
        ELSE /\ IsSubscriberHL(out[p])
             /\ p + 2 <= Len(out)
             /\ out[p + 2] = SubscriberName(n)}

(* the index of the billing provider whose pass holds position p *)
BlockOf(out, p) == Cardinality({q \in 1..p : IsBillingHL(out[q])}) - 1

(* C25: every store entry that names a registered billing provider has     *)
(* exactly one HL segment in a transaction, inside that provider's block;  *)
(* the entries of one provider come in insertion order; and there is no    *)
(* other subscriber or dependent HL segment.                               *)
C25_OneHLInOwnBlock ==
    \A k \in Returned1 :
        /\ \A n \in Emitted(Store) :
               \E p \in HLsOf(Store, Results[k].ret, n) :
                   /\ HLsOf(Store, Results[k].ret, n) = {p}
                   /\ BlockOf(Results[k].ret, p)
                          = At(Store.subscribers, n).billingProviderIndex
        /\ \A n, m \in Emitted(Store) :
               (/\ n < m
                /\ At(Store.subscribers, n).billingProviderIndex
                       = At(Store.subscribers, m).billingProviderIndex)
               => \A p \in HLsOf(Store, Results[k].ret, n),
                     q \in HLsOf(Store, Results[k].ret, m) : p < q
        /\ Count(Results[k].ret, LAMBDA s : IsSubscriberHL(s) \/ IsDependentHL(s))
               = Cardinality(Emitted(Store))

C25_Witness ==
    \E k \in Returned1 :
        /\ Len(Store.billing_providers) = 2
        /\ Emitted(Store) = {0, 1}
        /\ At(Store.subscribers, 0).billingProviderIndex = 1
        /\ At(Store.subscribers, 1).billingProviderIndex = 0
        /\ \E p \in HLsOf(Store, Results[k].ret, 0),
               q \in HLsOf(Store, Results[k].ret, 1) : q < p

----------------------------------------------------------------------------
(* C26: every dependent HL segment, whose parent is HL number 2, comes     *)
(* after a subscriber HL segment of the same billing provider's block.     *)
C26_DependentParentExists ==
    \A k \in Returned1 :
        \A p \in Positions(Results[k].ret, IsDependentHL) :
            /\ Results[k].ret[p] = <<"HL", "3", "2", "23", "0">>
            /\ \E q \in 1..(p - 1) :
                   /\ IsSubscriberHL(Results[k].ret[q])
                   /\ Results[k].ret[q][2] = "2"
                   /\ BlockOf(Results[k].ret, q) = BlockOf(Results[k].ret, p)

----------------------------------------------------------------------------
(* the contact a practice handed to add_billing_provider, read from its    *)
(* organization name                                                       *)
PassedContact(provider) ==
    CHOOSE c \in {None} \cup Contacts : Practice(c) = provider.organizationName

ContactSegment(contactInfo) ==
    <<"PER", "IC", contactInfo.name, "TE", contactInfo.phoneNumber>>

(* the positions of the PER segments in billing provider b's block *)
PERsIn(out, b) ==
    {p \in 1..Len(out) : out[p][1] = "PER" /\ BlockOf(out, p) = b}

(* billing provider b handed in a contact that no earlier billing provider *)
(* and no earlier add_submitter call had handed in                         *)
FirstToRegister(self, b) ==
    /\ PassedContact(At(self.billing_providers, b)) /= None
    /\ \A e \in 0..(b - 1) :
           PassedContact(At(self.billing_providers, e))
               /= PassedContact(At(self.billing_providers, b))
    /\ self.contact_info_map[
           ContactKey(PassedContact(At(self.billing_providers, b)))] = "billing"

C27_ContactEmitted ==
    \A k \in Returned1 :
        \A b \in 0..(Len(Store.billing_providers) - 1) :
            IF FirstToRegister(Store, b)
            THEN \E p \in PERsIn(Results[k].ret, b) :
                     /\ PERsIn(Results[k].ret, b) = {p}
                     /\ Results[k].ret[p] =
                            ContactSegment(
                                PassedContact(At(Store.billing_providers, b)))
            ELSE PERsIn(Results[k].ret, b) = {}

(* a step that adds a billing provider handing in contact c *)
AddsProvider(c) ==
    /\ Len(builder'[1].billing_providers) = Len(Store.billing_providers) + 1
    /\ PassedContact(builder'[1].billing_providers[
                         Len(builder'[1].billing_providers)]) = c

KeptContact(self) ==
    hasattr(self.billing_providers[Len(self.billing_providers)], "contactInfo")

C27_AddRegisters ==
    \A c \in {None} \cup Contacts :
        AddsProvider(c) =>
            /\ KeptContact(builder'[1])
                   <=> (/\ c /= None
                        /\ ContactKey(c) \notin DOMAIN Store.contact_info_map)
            /\ (/\ c /= None
                /\ \/ Store.submitter = c
                   \/ \E e \in 1..Len(Store.billing_providers) :
                          PassedContact(Store.billing_providers[e]) = c)
               => ~KeptContact(builder'[1])
            /\ c /= None => ContactKey(c) \in DOMAIN builder'[1].contact_info_map

----------------------------------------------------------------------------
(* a step in which build() was called on builder 1: add calls empty the    *)
(* results kept, build() appends one                                       *)
BuildStep == Len(builds'[1]) = Len(Results) + 1

StoreKept ==
    BuildStep =>
        /\ builder'[1].billing_providers = Store.billing_providers
        /\ builder'[1].subscribers = Store.subscribers
        /\ builder'[1].service_lines = Store.service_lines
        /\ builder'[1].rendering_providers = Store.rendering_providers
        /\ builder' = builder
        /\ files' = files
        /\ \A id \in DOMAIN heap :
               id /= Store.provider_map => heap'[id] = heap[id]

(* C28: a call of build() leaves the lists and singletons of the store as  *)
(* they were, whether it returns or raises; the registry its provider_map  *)
(* refers to is all it may change.                                         *)
C28_BuildLeavesStore == [][StoreKept]_vars

C28_Witness ==
    \E k \in Returned1 :
        /\ Len(Store.billing_providers) > 0
        /\ Len(Store.subscribers) > 0
        /\ Len(Store.service_lines) > 0
        /\ hasattr(Store, "payer_info")
        /\ Results[k].fresh
        /\ heap[Store.provider_map] /= <<>>

====
